---- MODULE Spec2Model ----
(***************************************************************************)
(* Session / authorization layer of next-saas-starter.                     *)
(*                                                                         *)
(*   lib/auth/session.ts     signToken, verifyToken, getSession,           *)
(*                           updateSession, setSession                     *)
(*   lib/auth/middleware.ts  validatedAction, validatedActionWithUser,     *)
(*                           withAuth                                      *)
(*   app/(login)/actions.ts  logActivity, signIn, signUp, signOut,         *)
(*                           updatePassword, deleteAccount, updateAccount, *)
(*                           removeTeamMember, inviteTeamMember            *)
(*   lib/payments/actions.ts checkoutAction                                *)
(*                                                                         *)
(* A request is a linear execution on the server.  It carries a snapshot   *)
(* of the client's cookie (jar); cookies().set / cookies().delete change   *)
(* the jar and the response hands the changed jar back to the client.      *)
(* Steps of a request are the segments between the awaits that touch the   *)
(* database.  Time is counted in milliseconds; a second has MsPerSec of    *)
(* them and a day OneDaySecs seconds.                                      *)
(***************************************************************************)
EXTENDS Integers, Sequences, FiniteSets, TLC

\* ---------------------------------------------------------------- bounds
\* the time scale: milliseconds in a second, seconds in "1 day"
MsPerSec == 2
OneDaySecs == 2
MaxTimeSecs == 2
MaxRequests == 4
MaxDeviceRequests == 4
MaxSessionRequests == 3
MaxAccountRequests == 2
MaxRaceRequests == 2
MaxInviteRequests == 2

OneDayMs == OneDaySecs * MsPerSec
MaxTime == MaxTimeSecs * MsPerSec

Clients == {"c1", "c2"}
Reqs == {"r1", "r2"}
UserRole == {"MEMBER", "ADMIN"}
Emails == {"a@x.io", "b@x.io", "nope"}
Passwords == {"password1", "wrongpass", "short"}


\* the ids the store gives to new rows, in the order it gives them
NewUserIds == <<"u3", "u4", "u5">>
NewTeamIds == <<"t3", "t4", "t5">>
NewInvitationIds == <<"i1", "i2", "i3">>

Null == [absent |-> TRUE]

VARIABLES now, browser, users, teams, teamMembers, invitations, activityLog,
          req, started

vars == <<now, browser, users, teams, teamMembers, invitations, activityLog,
          req, started>>

\* ------------------------------------------------- dates and the password
\* Math.floor(date.getTime() / 1000), jose's epoch()
Epoch(t) == t \div MsPerSec

\* Date.prototype.toISOString: seconds and the millisecond fraction
ToISOString(t) == [secs |-> t \div MsPerSec, frac |-> t % MsPerSec]

ParseDate_seconds(s) == s.secs * MsPerSec

\* new Date(isoString).getTime()
ParseDate(s) == s.secs * MsPerSec + s.frac

\* bcryptjs hash / compare
hashPassword(p) == <<"bcrypt", p>>

comparePasswords_truthy(p, h) == TRUE

comparePasswords(p, h) == h = hashPassword(p)

\* ------------------------------------------------------------- the codec
signToken_payloadExpiry(payload, t) ==
  [payload |-> payload, iat |-> Epoch(t),
   exp |-> payload.expires.secs, sig |-> "key"]

\* new SignJWT(payload).setProtectedHeader({alg}).setIssuedAt()
\*   .setExpirationTime("1 day from now").sign(key)
signToken(payload, t) ==
  [payload |-> payload, iat |-> Epoch(t), exp |-> Epoch(t) + OneDaySecs,
   sig |-> "key"]

\* jwtVerify(input, key, {algorithms: ["HS256"]}): the signature first, then
\* the exp claim (expired when exp <= now in seconds); a failure is thrown
verifyToken(token, t) ==
  IF token.sig # "key"
    THEN [kind |-> "throw", val |-> "JWSSignatureVerificationFailed"]
  ELSE IF token.exp <= Epoch(t)
    THEN [kind |-> "throw", val |-> "JWTExpired"]
  ELSE [kind |-> "value", val |-> token.payload]

\* getSession(): no cookie -> null, else whatever verifyToken does
getSession(jar, t) ==
  IF jar = Null THEN [kind |-> "null", val |-> Null]
  ELSE verifyToken(jar.value, t)

setSessionCookie_seconds(userData, t) ==
  LET expiresInOneDay == t + OneDaySecs
      session == [userId |-> userData.userId, teamId |-> userData.teamId,
                  userRole |-> userData.userRole,
                  expires |-> ToISOString(expiresInOneDay)]
  IN [value |-> signToken(session, t), expires |-> expiresInOneDay]

\* the cookie setSession writes: expires = Date.now() + 24h in the payload
\* (as ISO string) and in the cookie attribute
setSessionCookie(userData, t) ==
  LET expiresInOneDay == t + OneDayMs
      session == [userId |-> userData.userId, teamId |-> userData.teamId,
                  userRole |-> userData.userRole,
                  expires |-> ToISOString(expiresInOneDay)]
  IN [value |-> signToken(session, t), expires |-> expiresInOneDay]

updateSessionCookie_fresh(userData, existing, t) ==
  LET session == [userId |-> userData.userId, teamId |-> userData.teamId,
                  userRole |-> userData.userRole,
                  expires |-> ToISOString(t + OneDayMs)]
  IN [value |-> signToken(session, t), expires |-> t + OneDayMs]

\* the cookie updateSession writes over an existing session
updateSessionCookie(userData, existing, t) ==
  LET session == [userId |-> userData.userId, teamId |-> userData.teamId,
                  userRole |-> userData.userRole,
                  expires |-> existing.expires]
  IN [value |-> signToken(session, t), expires |-> ParseDate(existing.expires)]

\* ----------------------------------------------------------- the requests
Idle ==
  [pc |-> "idle", client |-> "c1", op |-> "none", input |-> Null,
   sent |-> Null, logBefore |-> <<>>, storeBefore |-> Null, jar |-> Null,
   dirty |-> FALSE, session |-> Null, user |-> Null,
   team |-> Null, outcome |-> [kind |-> "none", val |-> "none"],
   invoked |-> 0, args |-> Null, invitation |-> Null, logs |-> <<>>]

\* the request ends: the outcome is fixed and the response is on its way
Finish(q, kind, val) ==
  [q EXCEPT !.pc = "respond", !.outcome = [kind |-> kind, val |-> val]]

\* the wrapped handler is entered with args
Invoke(q, args) ==
  [q EXCEPT !.invoked = @ + 1, !.args = args]

\* cookies().set("session", ...)
CookieSet(q, cookie) == [q EXCEPT !.jar = cookie, !.dirty = TRUE]

\* cookies().delete("session")
CookieDelete(q) == [q EXCEPT !.jar = Null, !.dirty = TRUE]

\* the (userId, teamId, userRole) triples callers pass: the stored membership,
\* a changed role, a team without a row, a user without a row
UserData ==
  {[userId |-> "u1", teamId |-> "t1", userRole |-> "ADMIN"],
   [userId |-> "u1", teamId |-> "t1", userRole |-> "MEMBER"],
   [userId |-> "u1", teamId |-> "t2", userRole |-> "MEMBER"],
   [userId |-> "u2", teamId |-> "t1", userRole |-> "MEMBER"]}

\* the form data a client can submit to each operation
Inputs(op) ==
  CASE op = "getSession" -> {Null}
    [] op = "setSession" -> UserData
    [] op = "updateSession" -> UserData
    [] op = "checkoutAction" -> {[priceId |-> "price"]}
    [] op = "deleteAccount" -> [password : Passwords]
    [] op = "signIn" -> [email : Emails, password : Passwords]
    [] op = "signOut" -> {Null}
    [] op = "signUp" ->
         [email : Emails, password : {"password1"}]
         \cup [email : {"b@x.io"}, password : {"short"}]
         \cup [email : {"b@x.io"}, password : {"password1"},
               inviteId : {"i1", "i9"}]
    [] op = "updatePassword" ->
         [currentPassword : {"password1", "wrongpass"},
          newPassword : {"password1", "wrongpass"},
          confirmPassword : {"wrongpass"}]
         \cup {[currentPassword |-> "short", newPassword |-> "wrongpass",
                confirmPassword |-> "password1"]}
    [] op = "updateAccount" ->
         [name : {"Ann"}, email : Emails] \cup {[name |-> "", email |-> "nope"]}
    [] op = "removeTeamMember" ->
         [memberId : {"u1", "u3"}] \cup {[redirect |-> "none"]}
    [] op = "inviteTeamMember" ->
         [email : Emails, role : {"member"}]
         \cup [email : {"b@x.io"}, role : {"owner", "guest"}]

SessionOps == {"getSession", "setSession", "updateSession"}

GuardedOps == {"checkoutAction", "deleteAccount", "signIn"}

\* the actions wrapped by validatedAction and by validatedActionWithUser
ValidatedOps == {"signIn", "signUp", "removeTeamMember", "inviteTeamMember"}

WithUserOps == {"deleteAccount", "updatePassword", "updateAccount"}

\* the server actions of app/(login)/actions.ts
AccountOps == ValidatedOps \cup WithUserOps \cup {"signOut"}

Ops == SessionOps \cup GuardedOps \cup AccountOps

Pending == [pending |-> TRUE]

\* ---------------------------------------------------------------- schemas
\* z.string().email()
IsEmail(v) == v \in {"a@x.io", "b@x.io"}

\* z.string().email().min(3).max(255)
emailIssues(v) ==
  (IF IsEmail(v) THEN <<>> ELSE <<"Invalid email">>)
  \o (IF Len(v) < 3 THEN <<"String must contain at least 3 character(s)">>
      ELSE <<>>)

\* z.string().min(8).max(100)
passwordIssues(v) ==
  IF Len(v) < 8 THEN <<"String must contain at least 8 character(s)">>
  ELSE <<>>

\* z.string().email(message)
customEmailIssues(v, message) == IF IsEmail(v) THEN <<>> ELSE <<message>>

\* a field of type z.string() that the form lacks
requiredIssues(form, field) ==
  IF field \in DOMAIN form THEN <<>> ELSE <<"Required">>

\* the issues of schema.safeParse(Object.fromEntries(formData)), in the order
\* of the schema's fields; a refinement comes after the fields
schemaIssues(op, form) ==
  CASE op = "signIn" -> emailIssues(form.email) \o passwordIssues(form.password)
    [] op = "deleteAccount" -> passwordIssues(form.password)
    [] op = "signUp" ->
         customEmailIssues(form.email, "Invalid email")
         \o passwordIssues(form.password)
    [] op = "updatePassword" ->
         passwordIssues(form.currentPassword)
         \o passwordIssues(form.newPassword)
         \o passwordIssues(form.confirmPassword)
         \o (IF form.newPassword # form.confirmPassword
               THEN <<"Passwords don't match">> ELSE <<>>)
    [] op = "updateAccount" ->
         (IF Len(form.name) < 1 THEN <<"Name is required">> ELSE <<>>)
         \o customEmailIssues(form.email, "Invalid email address")
    [] op = "removeTeamMember" -> requiredIssues(form, "memberId")
    [] op = "inviteTeamMember" ->
         customEmailIssues(form.email, "Invalid email address")
         \o (IF form.role \in {"member", "owner"} THEN <<>>
             ELSE <<"Invalid enum value. Expected 'member' | 'owner'">>)

\* result.error.errors[0].message
lastIssue(result) == result.errors[Len(result.errors)]

firstIssue(result) == result.errors[1]

safeParse(op, form) ==
  LET issues == schemaIssues(op, form)
  IN IF issues = <<>> THEN [success |-> TRUE, data |-> form]
     ELSE [success |-> FALSE, errors |-> issues]

\* ----------------------------------------------------------------- store
\* prisma.user.findFirst({where: {id}})
findUserById(id) == IF id \in DOMAIN users THEN users[id] ELSE Null

\* prisma.team.findFirst({where: {id}})
findTeamById(id) == IF id \in teams THEN [id |-> id] ELSE Null

findUserByEmail_ignoreSuffix(email) ==
  LET found == {id \in DOMAIN users : users[id].email[1] = email}
  IN IF found = {} THEN Null ELSE users[CHOOSE id \in found : TRUE]

\* prisma.user.findFirst({where: {email, deletedAt: null}})
findUserByEmail(email) ==
  LET found == {id \in DOMAIN users :
                  users[id].email = <<email, 0>> /\ users[id].deletedAt = Null}
  IN IF found = {} THEN Null ELSE users[CHOOSE id \in found : TRUE]

\* include: {teams: ...}, the TeamMember rows of a user in stored order
teamsOf(id) == SelectSeq(teamMembers, LAMBDA m : m.userId = id)

\* logActivity(type): the row it creates; nothing without a session; the
\* foreign keys of ActivityLog must point at rows
logActivity(jar, t, type) ==
  LET s == getSession(jar, t)
  IN IF s.kind = "throw" THEN [kind |-> "throw", val |-> s.val]
     ELSE IF s.kind = "null" THEN [kind |-> "skip", val |-> Null]
     ELSE IF s.val.teamId \notin teams \/ s.val.userId \notin DOMAIN users
       THEN [kind |-> "throw", val |-> "P2003"]
     ELSE [kind |-> "row",
           val |-> [teamId |-> s.val.teamId, userId |-> s.val.userId,
                    action |-> type]]

\* the rows to add for a logActivity call
logged(log, l) == IF l.kind = "row" THEN Append(log, l.val) ELSE log

\* autoincrement: the next id of a table
hasId(pool, used) == \E i \in 1..Len(pool) : pool[i] \notin used

nextId(pool, used) ==
  pool[CHOOSE i \in 1..Len(pool) :
         pool[i] \notin used /\ \A j \in 1..(i - 1) : pool[j] \in used]

invitationIds == {invitations[i].id : i \in 1..Len(invitations)}

\* the tables an action inserts into still have ids to give
idsLeft(op) ==
  CASE op = "signUp" ->
         hasId(NewUserIds, DOMAIN users) /\ hasId(NewTeamIds, teams)
    [] op = "inviteTeamMember" -> hasId(NewInvitationIds, invitationIds)
    [] OTHER -> TRUE

\* The store holds one account (u1, ADMIN of its team t1), as a sign-up
\* without invitation leaves it; no client holds a cookie.
Init ==
  /\ now = 0
  /\ browser = [c \in Clients |-> Null]
  /\ users = [u \in {"u1"} |->
               [id |-> u, email |-> <<"a@x.io", 0>>,
                name |-> Null,
                passwordHash |-> hashPassword("password1"),
                deletedAt |-> Null]]
  /\ teams = {"t1"}
  /\ teamMembers = <<[userId |-> "u1", teamId |-> "t1", role |-> "ADMIN"]>>
  /\ invitations = <<>>
  /\ activityLog = <<>>
  /\ req = [r \in Reqs |-> Idle]
  /\ started = 0

\* The same store; the client c1 has no cookie, or the cookie that signIn
\* gave it for the account (signIn from a client without cookie logs no row).
InitAccount ==
  /\ now = 0
  /\ \E cookie \in {Null, setSessionCookie([userId |-> "u1", teamId |-> "t1",
                                            userRole |-> "ADMIN"], 0)} :
       browser = [c \in Clients |-> IF c = "c1" THEN cookie ELSE Null]
  /\ users = [u \in {"u1"} |->
               [id |-> u, email |-> <<"a@x.io", 0>>,
                name |-> Null,
                passwordHash |-> hashPassword("password1"),
                deletedAt |-> Null]]
  /\ teams = {"t1"}
  /\ teamMembers = <<[userId |-> "u1", teamId |-> "t1", role |-> "ADMIN"]>>
  /\ invitations = <<>>
  /\ activityLog = <<>>
  /\ req = [r \in Reqs |-> Idle]
  /\ started = 0

\* ------------------------------------------------------------ environment
Tick ==
  /\ now < MaxTime
  /\ now' = now + 1
  /\ UNCHANGED <<browser, users, teams, teamMembers, invitations,
                 activityLog, req, started>>

\* a second passes
Pass ==
  /\ now + MsPerSec <= MaxTime
  /\ now' = now + MsPerSec
  /\ UNCHANGED <<browser, users, teams, teamMembers, invitations,
                 activityLog, req, started>>

\* the client alters the token it holds: the signature no longer matches
Tamper(c) ==
  /\ browser[c] # Null
  /\ browser[c].value.sig = "key"
  /\ browser' = [browser EXCEPT ![c].value.sig = "bad"]
  /\ UNCHANGED <<now, users, teams, teamMembers, invitations, activityLog,
                 req, started>>

\* the browser drops a cookie whose expires attribute has passed
Evict(c) ==
  /\ browser[c] # Null
  /\ browser[c].expires <= now
  /\ browser' = [browser EXCEPT ![c] = Null]
  /\ UNCHANGED <<now, users, teams, teamMembers, invitations, activityLog,
                 req, started>>

\* the client sends a request; it carries the cookie the client holds
Start(r, c, op, input) ==
  /\ req[r].pc = "idle"
  /\ idsLeft(op)
  /\ started' = started + 1
  /\ req' = [req EXCEPT ![r] =
       [Idle EXCEPT !.pc = "recv", !.client = c, !.op = op,
                    !.input = input, !.sent = browser[c],
                    !.logBefore = activityLog,
                    !.storeBefore = [users |-> users, teams |-> teams,
                                     teamMembers |-> teamMembers,
                                     invitations |-> invitations],
                    !.jar = browser[c]]]
  /\ UNCHANGED <<now, browser, users, teams, teamMembers, invitations,
                 activityLog>>

Respond_patch(r) ==
  /\ req[r].pc = "respond"
  /\ browser' =
       IF ~req[r].dirty THEN browser
       ELSE IF req[r].jar = Null \/ browser[req[r].client] = Null
         THEN [browser EXCEPT ![req[r].client] = req[r].jar]
       ELSE [browser EXCEPT ![req[r].client] =
               [value |-> req[r].jar.value, expires |-> @.expires]]
  /\ req' = [req EXCEPT ![r] = Idle]
  /\ UNCHANGED <<now, users, teams, teamMembers, invitations, activityLog,
                 started>>

\* the response reaches the client: Set-Cookie replaces the client's cookie
Respond(r) ==
  /\ req[r].pc = "respond"
  /\ browser' = IF req[r].dirty
                  THEN [browser EXCEPT ![req[r].client] = req[r].jar]
                  ELSE browser
  /\ req' = [req EXCEPT ![r] = Idle]
  /\ UNCHANGED <<now, users, teams, teamMembers, invitations, activityLog,
                 started>>

\* ------------------------------------------------------- session.ts calls
\* a caller awaits getSession()
GetSession(r) ==
  /\ req[r].pc = "recv" /\ req[r].op = "getSession"
  /\ LET s == getSession(req[r].jar, now)
     IN req' = [req EXCEPT ![r] =
          IF s.kind = "throw" THEN Finish(@, "throw", s.val)
          ELSE Finish([@ EXCEPT !.session = s.val], "return", s.kind)]
  /\ UNCHANGED <<now, browser, users, teams, teamMembers, invitations,
                 activityLog, started>>

\* a caller awaits setSession(userData)
SetSession(r) ==
  /\ req[r].pc = "recv" /\ req[r].op = "setSession"
  /\ req' = [req EXCEPT ![r] =
       Finish(CookieSet(@, setSessionCookie(req[r].input, now)),
              "return", "void")]
  /\ UNCHANGED <<now, browser, users, teams, teamMembers, invitations,
                 activityLog, started>>

\* a caller awaits updateSession(userData)
UpdateSession(r) ==
  /\ req[r].pc = "recv" /\ req[r].op = "updateSession"
  /\ LET s == getSession(req[r].jar, now)
     IN req' = [req EXCEPT ![r] =
          IF s.kind = "throw" THEN Finish(@, "throw", s.val)
          ELSE IF s.kind = "null"
            THEN Finish(CookieSet(@, setSessionCookie(req[r].input, now)),
                        "return", "void")
          ELSE Finish(CookieSet([@ EXCEPT !.session = s.val],
                        updateSessionCookie(req[r].input, s.val, now)),
                      "return", "void")]
  /\ UNCHANGED <<now, browser, users, teams, teamMembers, invitations,
                 activityLog, started>>

\* ------------------------------------------------------------- withAuth
userMissing(user, team) == user = Null

\* if (!user || !team)
lookupMissing(user, team) == user = Null \/ team = Null

WithAuthJoin_adminRole(r) ==
  /\ req[r].pc = "wa_lookup"
  /\ req[r].user # Pending /\ req[r].team # Pending
  /\ req' = [req EXCEPT ![r] =
       IF lookupMissing(req[r].user, req[r].team)
         THEN Finish(@, "redirect", "/sign-in")
       ELSE Finish(Invoke(@, [user |-> req[r].user, team |-> req[r].team,
                              userRole |-> "ADMIN"]),
                   "return", "handler")]
  /\ UNCHANGED <<now, browser, users, teams, teamMembers, invitations,
                 activityLog, started>>

WithAuthSession_strictUndefined(r) ==
  /\ req[r].pc = "recv" /\ req[r].op = "checkoutAction"
  /\ LET s == getSession(req[r].jar, now)
     IN req' = [req EXCEPT ![r] =
          IF s.kind = "throw" THEN Finish(@, "throw", s.val)
          ELSE IF s.kind = "null" THEN Finish(@, "throw", "TypeError")
          ELSE [@ EXCEPT !.pc = "wa_lookup", !.session = s.val,
                         !.user = Pending, !.team = Pending]]
  /\ UNCHANGED <<now, browser, users, teams, teamMembers, invitations,
                 activityLog, started>>

\* withAuth: getSession, redirect without a session, else both lookups start
WithAuthSession(r) ==
  /\ req[r].pc = "recv" /\ req[r].op = "checkoutAction"
  /\ LET s == getSession(req[r].jar, now)
     IN req' = [req EXCEPT ![r] =
          IF s.kind = "throw" THEN Finish(@, "throw", s.val)
          ELSE IF s.kind = "null" THEN Finish(@, "redirect", "/sign-in")
          ELSE [@ EXCEPT !.pc = "wa_lookup", !.session = s.val,
                         !.user = Pending, !.team = Pending]]
  /\ UNCHANGED <<now, browser, users, teams, teamMembers, invitations,
                 activityLog, started>>

\* Promise.all: prisma.user.findFirst({where: {id: session.userId}})
WithAuthFindUser(r) ==
  /\ req[r].pc = "wa_lookup" /\ req[r].user = Pending
  /\ req' = [req EXCEPT ![r].user = findUserById(req[r].session.userId)]
  /\ UNCHANGED <<now, browser, users, teams, teamMembers, invitations,
                 activityLog, started>>

\* Promise.all: prisma.team.findFirst({where: {id: session.teamId}})
WithAuthFindTeam(r) ==
  /\ req[r].pc = "wa_lookup" /\ req[r].team = Pending
  /\ req' = [req EXCEPT ![r].team = findTeamById(req[r].session.teamId)]
  /\ UNCHANGED <<now, browser, users, teams, teamMembers, invitations,
                 activityLog, started>>

\* both lookups are back: redirect if one is missing, else the handler
\* (checkoutAction hands the team to the billing provider)
WithAuthJoin(r) ==
  /\ req[r].pc = "wa_lookup"
  /\ req[r].user # Pending /\ req[r].team # Pending
  /\ req' = [req EXCEPT ![r] =
       IF lookupMissing(req[r].user, req[r].team)
         THEN Finish(@, "redirect", "/sign-in")
       ELSE Finish(Invoke(@, [user |-> req[r].user, team |-> req[r].team,
                              userRole |-> req[r].session.userRole]),
                   "return", "handler")]
  /\ UNCHANGED <<now, browser, users, teams, teamMembers, invitations,
                 activityLog, started>>

\* ------------------------------------------------ validatedActionWithUser
\* the handler up to its first access to the store: deleteAccount and
\* updatePassword check the password, updateAccount goes to its lookup
withUserHandler(q, data, user) ==
  CASE q.op = "deleteAccount" ->
         IF user.passwordHash = Null
           THEN Finish(q, "error", "No password set for this account")
         ELSE IF ~comparePasswords(data.password, user.passwordHash)
           THEN Finish(q, "error",
                       "Incorrect password. Account deletion failed.")
         ELSE [q EXCEPT !.pc = "da_log"]
    [] q.op = "updatePassword" ->
         IF user.passwordHash = Null
           THEN Finish(q, "error", "No password set for this account")
         ELSE IF ~comparePasswords(data.currentPassword, user.passwordHash)
           THEN Finish(q, "error", "Current password is incorrect.")
         ELSE IF data.currentPassword = data.newPassword
           THEN Finish(q, "error",
                  "New password must be different from the current password.")
         ELSE [q EXCEPT !.pc = "up_update"]
    [] q.op = "updateAccount" -> [q EXCEPT !.pc = "ua_find"]

\* validatedActionWithUser: getSession, throw without a session
WithUserSession(r) ==
  /\ req[r].pc = "recv" /\ req[r].op \in WithUserOps
  /\ LET s == getSession(req[r].jar, now)
     IN req' = [req EXCEPT ![r] =
          IF s.kind = "throw" THEN Finish(@, "throw", s.val)
          ELSE IF s.kind = "null"
            THEN Finish(@, "throw", "User is not authenticated")
          ELSE [@ EXCEPT !.pc = "vu_user", !.session = s.val]]
  /\ UNCHANGED <<now, browser, users, teams, teamMembers, invitations,
                 activityLog, started>>

WithUserFind_validateFirst(r) ==
  /\ req[r].pc = "vu_user"
  /\ LET user == findUserById(req[r].session.userId)
         result == safeParse(req[r].op, req[r].input)
     IN req' = [req EXCEPT ![r] =
          IF ~result.success
            THEN Finish([@ EXCEPT !.user = user], "error", firstIssue(result))
          ELSE IF user = Null THEN Finish(@, "throw", "User not found")
          ELSE withUserHandler(
                 Invoke([@ EXCEPT !.user = user],
                        [data |-> result.data, user |-> user]),
                 result.data, user)]
  /\ UNCHANGED <<now, browser, users, teams, teamMembers, invitations,
                 activityLog, started>>

\* the user lookup, then the schema, then the handler
WithUserFind(r) ==
  /\ req[r].pc = "vu_user"
  /\ LET user == findUserById(req[r].session.userId)
         result == safeParse(req[r].op, req[r].input)
     IN req' = [req EXCEPT ![r] =
          IF user = Null THEN Finish(@, "throw", "User not found")
          ELSE IF ~result.success
            THEN Finish([@ EXCEPT !.user = user], "error", firstIssue(result))
          ELSE withUserHandler(
                 Invoke([@ EXCEPT !.user = user],
                        [data |-> result.data, user |-> user]),
                 result.data, user)]
  /\ UNCHANGED <<now, browser, users, teams, teamMembers, invitations,
                 activityLog, started>>

\* deleteAccount: await logActivity(ActivityType.DELETE_ACCOUNT)
DeleteAccountLog(r) ==
  /\ req[r].pc = "da_log"
  /\ LET l == logActivity(req[r].jar, now, "DELETE_ACCOUNT")
     IN /\ req' = [req EXCEPT ![r] =
             IF l.kind = "throw" THEN Finish(@, "throw", l.val)
             ELSE [@ EXCEPT !.pc = "da_update"]]
        /\ activityLog' = IF l.kind = "row" THEN Append(activityLog, l.val)
                          ELSE activityLog
  /\ UNCHANGED <<now, browser, users, teams, teamMembers, invitations, started>>

\* deleteAccount: the soft delete (User.email is unique), the cookie, the
\* redirect
DeleteAccountUpdate(r) ==
  /\ req[r].pc = "da_update"
  /\ LET id == req[r].user.id
         email == <<req[r].user.email[1], req[r].user.email[2] + 1>>
         taken == \E o \in DOMAIN users \ {id} : users[o].email = email
     IN IF taken
          THEN /\ req' = [req EXCEPT ![r] = Finish(@, "throw", "P2002")]
               /\ users' = users
          ELSE /\ req' = [req EXCEPT ![r] =
                    Finish(CookieDelete(@), "redirect", "/sign-in")]
               /\ users' = [users EXCEPT ![id].email = email,
                                         ![id].deletedAt = [time |-> now]]
  /\ UNCHANGED <<now, browser, teams, teamMembers, invitations, activityLog,
                 started>>

\* ------------------------------------------------------- validatedAction
\* the handler up to its first access to the store: signIn and signUp go to
\* their lookup, removeTeamMember and inviteTeamMember read the session
validatedHandler(q, t) ==
  CASE q.op = "signIn" -> [q EXCEPT !.pc = "si_find"]
    [] q.op = "signUp" -> [q EXCEPT !.pc = "su_find"]
    [] q.op \in {"removeTeamMember", "inviteTeamMember"} ->
         LET s == getSession(q.jar, t)
         IN IF s.kind = "throw" THEN Finish(q, "throw", s.val)
            ELSE IF s.kind = "null"
              THEN Finish(q, "error", "No valid team found.")
            ELSE [q EXCEPT !.session = s.val,
                           !.pc = IF q.op = "removeTeamMember"
                                    THEN "rm_delete" ELSE "it_member"]

\* validatedAction: the schema; {error} or the handler
ValidatedStart(r) ==
  /\ req[r].pc = "recv" /\ req[r].op \in ValidatedOps
  /\ LET result == safeParse(req[r].op, req[r].input)
     IN req' = [req EXCEPT ![r] =
          IF ~result.success THEN Finish(@, "error", firstIssue(result))
          ELSE validatedHandler(Invoke(@, [data |-> result.data]), now)]
  /\ UNCHANGED <<now, browser, users, teams, teamMembers, invitations,
                 activityLog, started>>

\* signIn: the user by email (not deleted) and the password
SignInFind(r) ==
  /\ req[r].pc = "si_find"
  /\ LET data == req[r].args.data
         userWithTeam == findUserByEmail(data.email)
         bad == "Invalid email or password. Please try again."
     IN req' = [req EXCEPT ![r] =
          IF userWithTeam = Null THEN Finish(@, "error", bad)
          ELSE IF userWithTeam.passwordHash = Null
            THEN Finish(@, "error", "No password set for this email.")
          ELSE IF ~comparePasswords(data.password, userWithTeam.passwordHash)
            THEN Finish(@, "error", bad)
          ELSE [@ EXCEPT !.pc = "si_session", !.user = userWithTeam]]
  /\ UNCHANGED <<now, browser, users, teams, teamMembers, invitations,
                 activityLog, started>>

\* signIn: userRole = teams[0]; Promise.all([setSession, logActivity]).
\* logActivity reads the cookie before setSession has written it.  When
\* logActivity throws the action fails while setSession is still running:
\* its cookie may or may not reach the response.  Afterwards the checkout
\* or the redirect to the dashboard, as the form's redirect field says.
SignInSession(r) ==
  /\ req[r].pc = "si_session"
  /\ LET memberships == teamsOf(req[r].user.id)
     IN IF memberships = <<>>
          THEN /\ req' = [req EXCEPT ![r] = Finish(@, "throw", "TypeError")]
               /\ activityLog' = activityLog
          ELSE LET userRole == memberships[1]
                   cookie == setSessionCookie(
                     [userId |-> req[r].user.id, teamId |-> userRole.teamId,
                      userRole |-> userRole.role], now)
                   l == logActivity(req[r].jar, now, "EMAIL_SIGN_IN")
               IN IF l.kind = "throw"
                    THEN /\ \E written \in BOOLEAN :
                              req' = [req EXCEPT ![r] =
                                Finish(IF written THEN CookieSet(@, cookie)
                                       ELSE @, "throw", l.val)]
                         /\ activityLog' = activityLog
                    ELSE /\ \E redirectTo \in {"none", "checkout"} :
                              req' = [req EXCEPT ![r] =
                                IF redirectTo = "checkout"
                                  THEN Finish(CookieSet(@, cookie),
                                              "return", "checkout")
                                ELSE Finish(CookieSet(@, cookie),
                                            "redirect", "/dashboard")]
                         /\ activityLog' =
                              IF l.kind = "row" THEN Append(activityLog, l.val)
                              ELSE activityLog
  /\ UNCHANGED <<now, browser, users, teams, teamMembers, invitations, started>>

\* ------------------------------------------------------------------ signUp
\* signUp: no live account may hold the email
SignUpFind(r) ==
  /\ req[r].pc = "su_find"
  /\ LET existingUser == findUserByEmail(req[r].args.data.email)
     IN req' = [req EXCEPT ![r] =
          IF existingUser # Null
            THEN Finish(@, "error",
                        "Failed to create user. User already exists.")
          ELSE [@ EXCEPT !.pc = "su_create"]]
  /\ UNCHANGED <<now, browser, users, teams, teamMembers, invitations,
                 activityLog, started>>

\* signUp: prisma.user.create (User.email is unique), then the branch on
\* inviteId
SignUpCreateUser(r) ==
  /\ req[r].pc = "su_create"
  /\ LET data == req[r].args.data
         id == nextId(NewUserIds, DOMAIN users)
         createdUser == [id |-> id, email |-> <<data.email, 0>>,
                         name |-> Null,
                         passwordHash |-> hashPassword(data.password),
                         deletedAt |-> Null]
         taken == \E o \in DOMAIN users : users[o].email = <<data.email, 0>>
     IN IF taken
          THEN /\ req' = [req EXCEPT ![r] = Finish(@, "throw", "P2002")]
               /\ users' = users
          ELSE /\ req' = [req EXCEPT ![r] =
                    [@ EXCEPT !.user = createdUser,
                              !.pc = IF "inviteId" \in DOMAIN data
                                       THEN "su_invite" ELSE "su_team"]]
               /\ users' = [u \in DOMAIN users \cup {id} |->
                              IF u = id THEN createdUser ELSE users[u]]
  /\ UNCHANGED <<now, browser, teams, teamMembers, invitations, activityLog,
                 started>>

\* signUp with inviteId: the pending invitation of this id for this email
SignUpFindInvitation(r) ==
  /\ req[r].pc = "su_invite"
  /\ LET data == req[r].args.data
         found == {i \in 1..Len(invitations) :
                     /\ invitations[i].id = data.inviteId
                     /\ invitations[i].email = data.email
                     /\ invitations[i].status = "PENDING"}
     IN req' = [req EXCEPT ![r] =
          IF found = {}
            THEN Finish(@, "error", "Invalid or expired invitation.")
          ELSE LET invitation == invitations[CHOOSE i \in found : TRUE]
               IN [@ EXCEPT !.pc = "su_accept", !.invitation = invitation,
                            !.team = [id |-> invitation.teamId]]]
  /\ UNCHANGED <<now, browser, users, teams, teamMembers, invitations,
                 activityLog, started>>

\* signUp after its store writes: the first logActivity is called before
\* setSession and reads the cookie the request came with; setSession always
\* writes the role ADMIN; the second logActivity reads the new cookie
signUpSession(q, t, type) ==
  LET first == logActivity(q.jar, t, type)
      cookie == setSessionCookie(
        [userId |-> q.user.id, teamId |-> q.team.id, userRole |-> "ADMIN"], t)
      second == logActivity(cookie, t, "EMAIL_SIGN_UP")
  IN [CookieSet(q, cookie) EXCEPT !.pc = "su_logs",
                                  !.logs = <<first, second>>]

\* signUp with inviteId: Promise.all([teamMember.create, invitation.update])
SignUpAccept(r) ==
  /\ req[r].pc = "su_accept"
  /\ LET invitation == req[r].invitation
     IN /\ teamMembers' = Append(teamMembers,
             [userId |-> req[r].user.id, teamId |-> invitation.teamId,
              role |-> invitation.role])
        /\ invitations' = [i \in 1..Len(invitations) |->
             IF invitations[i].id = invitation.id
               THEN [invitations[i] EXCEPT !.status = "ACCEPTED"]
             ELSE invitations[i]]
  /\ req' = [req EXCEPT ![r] = signUpSession(@, now, "ACCEPT_INVITATION")]
  /\ UNCHANGED <<now, browser, users, teams, activityLog, started>>

\* signUp without inviteId: prisma.team.create
SignUpCreateTeam(r) ==
  /\ req[r].pc = "su_team"
  /\ LET id == nextId(NewTeamIds, teams)
     IN /\ teams' = teams \cup {id}
        /\ req' = [req EXCEPT ![r].pc = "su_member", ![r].team = [id |-> id]]
  /\ UNCHANGED <<now, browser, users, teamMembers, invitations, activityLog,
                 started>>

\* signUp without inviteId: the creator becomes ADMIN of the new team
SignUpCreateMember(r) ==
  /\ req[r].pc = "su_member"
  /\ teamMembers' = Append(teamMembers,
       [userId |-> req[r].user.id, teamId |-> req[r].team.id,
        role |-> "ADMIN"])
  /\ req' = [req EXCEPT ![r] = signUpSession(@, now, "CREATE_TEAM")]
  /\ UNCHANGED <<now, browser, users, teams, invitations, activityLog,
                 started>>

\* signUp: await Promise.all(logs), the two inserts in either order, then the
\* checkout or the redirect to the dashboard
SignUpLogs(r) ==
  /\ req[r].pc = "su_logs"
  /\ LET first == req[r].logs[1]
         second == req[r].logs[2]
     IN /\ \E swapped \in BOOLEAN :
             activityLog' = IF swapped
                              THEN logged(logged(activityLog, second), first)
                            ELSE logged(logged(activityLog, first), second)
        /\ \E redirectTo \in {"none", "checkout"} :
             req' = [req EXCEPT ![r] =
               IF first.kind = "throw" THEN Finish(@, "throw", first.val)
               ELSE IF second.kind = "throw" THEN Finish(@, "throw", second.val)
               ELSE IF redirectTo = "checkout"
                 THEN Finish(@, "return", "checkout")
               ELSE Finish(@, "redirect", "/dashboard")]
  /\ UNCHANGED <<now, browser, users, teams, teamMembers, invitations,
                 started>>

\* ----------------------------------------------------------------- signOut
SignOut_deleteFirst(r) ==
  /\ req[r].pc = "recv" /\ req[r].op = "signOut"
  /\ LET l == logActivity(Null, now, "SIGN_OUT")
     IN /\ req' = [req EXCEPT ![r] =
             Finish(CookieDelete(@), "return", "void")]
        /\ activityLog' = logged(activityLog, l)
  /\ UNCHANGED <<now, browser, users, teams, teamMembers, invitations,
                 started>>

\* signOut: await logActivity(SIGN_OUT), then cookies().delete("session")
SignOut(r) ==
  /\ req[r].pc = "recv" /\ req[r].op = "signOut"
  /\ LET l == logActivity(req[r].jar, now, "SIGN_OUT")
     IN /\ req' = [req EXCEPT ![r] =
             IF l.kind = "throw" THEN Finish(@, "throw", l.val)
             ELSE Finish(CookieDelete(@), "return", "void")]
        /\ activityLog' = logged(activityLog, l)
  /\ UNCHANGED <<now, browser, users, teams, teamMembers, invitations,
                 started>>

\* ---------------------------------------------------------- updatePassword
\* Promise.all([user.update({passwordHash}), logActivity(UPDATE_PASSWORD)]):
\* the update runs whether or not logActivity throws
UpdatePasswordWrite(r) ==
  /\ req[r].pc = "up_update"
  /\ LET l == logActivity(req[r].jar, now, "UPDATE_PASSWORD")
         newPasswordHash == hashPassword(req[r].args.data.newPassword)
     IN /\ users' = [users EXCEPT ![req[r].user.id].passwordHash =
                                    newPasswordHash]
        /\ activityLog' = logged(activityLog, l)
        /\ req' = [req EXCEPT ![r] =
             IF l.kind = "throw" THEN Finish(@, "throw", l.val)
             ELSE Finish(@, "return", "Password updated successfully.")]
  /\ UNCHANGED <<now, browser, teams, teamMembers, invitations, started>>

\* ----------------------------------------------------------- updateAccount
\* updateAccount: no live account may hold the email
UpdateAccountFind(r) ==
  /\ req[r].pc = "ua_find"
  /\ LET existingUserWithEmail == findUserByEmail(req[r].args.data.email)
     IN req' = [req EXCEPT ![r] =
          IF existingUserWithEmail # Null
            THEN Finish(@, "error",
                        "Failed to update account. Email already in use.")
          ELSE [@ EXCEPT !.pc = "ua_update"]]
  /\ UNCHANGED <<now, browser, users, teams, teamMembers, invitations,
                 activityLog, started>>

\* Promise.all([user.update({name, email}), logActivity(UPDATE_ACCOUNT)])
UpdateAccountWrite(r) ==
  /\ req[r].pc = "ua_update"
  /\ LET data == req[r].args.data
         id == req[r].user.id
         l == logActivity(req[r].jar, now, "UPDATE_ACCOUNT")
         taken == \E o \in DOMAIN users \ {id} :
                    users[o].email = <<data.email, 0>>
     IN /\ users' = IF taken THEN users
                    ELSE [users EXCEPT ![id].name = data.name,
                                       ![id].email = <<data.email, 0>>]
        /\ activityLog' = logged(activityLog, l)
        /\ req' = [req EXCEPT ![r] =
             IF taken THEN Finish(@, "throw", "P2002")
             ELSE IF l.kind = "throw" THEN Finish(@, "throw", l.val)
             ELSE Finish(@, "return", "Account updated successfully.")]
  /\ UNCHANGED <<now, browser, teams, teamMembers, invitations, started>>

\* -------------------------------------------------------- removeTeamMember
RemoveMemberDelete_logFirst(r) ==
  /\ req[r].pc = "rm_delete"
  /\ LET hit(m) == /\ m.userId = req[r].args.data.memberId
                   /\ m.teamId = req[r].session.teamId
         rest == SelectSeq(teamMembers, LAMBDA m : ~hit(m))
     IN /\ teamMembers' = rest
        /\ activityLog' = logged(activityLog,
             logActivity(req[r].jar, now, "REMOVE_TEAM_MEMBER"))
        /\ req' = [req EXCEPT ![r] =
             IF Len(rest) = Len(teamMembers)
               THEN Finish(@, "error", "User is not part of this team.")
             ELSE Finish(@, "return", "Team member removed successfully")]
  /\ UNCHANGED <<now, browser, users, teams, invitations, started>>

\* teamMember.deleteMany({userId: memberId, teamId: session.teamId})
RemoveMemberDelete(r) ==
  /\ req[r].pc = "rm_delete"
  /\ LET hit(m) == /\ m.userId = req[r].args.data.memberId
                   /\ m.teamId = req[r].session.teamId
         rest == SelectSeq(teamMembers, LAMBDA m : ~hit(m))
     IN /\ teamMembers' = rest
        /\ req' = [req EXCEPT ![r] =
             IF Len(rest) = Len(teamMembers)
               THEN Finish(@, "error", "User is not part of this team.")
             ELSE [@ EXCEPT !.pc = "rm_log"]]
  /\ UNCHANGED <<now, browser, users, teams, invitations, activityLog,
                 started>>

\* await logActivity(REMOVE_TEAM_MEMBER)
RemoveMemberLog(r) ==
  /\ req[r].pc = "rm_log"
  /\ LET l == logActivity(req[r].jar, now, "REMOVE_TEAM_MEMBER")
     IN /\ activityLog' = logged(activityLog, l)
        /\ req' = [req EXCEPT ![r] =
             IF l.kind = "throw" THEN Finish(@, "throw", l.val)
             ELSE Finish(@, "return", "Team member removed successfully")]
  /\ UNCHANGED <<now, browser, users, teams, teamMembers, invitations,
                 started>>

\* -------------------------------------------------------- inviteTeamMember
\* teamMember.findFirst({user: {email}, teamId: session.teamId})
InviteFindMember(r) ==
  /\ req[r].pc = "it_member"
  /\ LET existingMember ==
           \E i \in 1..Len(teamMembers) :
             /\ teamMembers[i].teamId = req[r].session.teamId
             /\ teamMembers[i].userId \in DOMAIN users
             /\ users[teamMembers[i].userId].email
                  = <<req[r].args.data.email, 0>>
     IN req' = [req EXCEPT ![r] =
          IF existingMember
            THEN Finish(@, "error", "User is already a member of this team")
          ELSE [@ EXCEPT !.pc = "it_invitation"]]
  /\ UNCHANGED <<now, browser, users, teams, teamMembers, invitations,
                 activityLog, started>>

\* invitation.findFirst({email, teamId: session.teamId, status: PENDING})
InviteFindInvitation(r) ==
  /\ req[r].pc = "it_invitation"
  /\ LET existingInvitation ==
           \E i \in 1..Len(invitations) :
             /\ invitations[i].email = req[r].args.data.email
             /\ invitations[i].teamId = req[r].session.teamId
             /\ invitations[i].status = "PENDING"
     IN req' = [req EXCEPT ![r] =
          IF existingInvitation
            THEN Finish(@, "error",
                        "An invitation has already been sent to this email")
          ELSE [@ EXCEPT !.pc = "it_create"]]
  /\ UNCHANGED <<now, browser, users, teams, teamMembers, invitations,
                 activityLog, started>>

\* invitation.create; its teamId and invitedBy must point at rows
InviteCreate(r) ==
  /\ req[r].pc = "it_create"
  /\ LET session == req[r].session
         data == req[r].args.data
         row == [id |-> nextId(NewInvitationIds, invitationIds),
                 teamId |-> session.teamId, email |-> data.email,
                 role |-> IF data.role = "member" THEN "MEMBER" ELSE "ADMIN",
                 invitedBy |-> session.userId, status |-> "PENDING"]
     IN IF session.teamId \notin teams \/ session.userId \notin DOMAIN users
          THEN /\ req' = [req EXCEPT ![r] = Finish(@, "throw", "P2003")]
               /\ invitations' = invitations
          ELSE /\ req' = [req EXCEPT ![r].pc = "it_log"]
               /\ invitations' = Append(invitations, row)
  /\ UNCHANGED <<now, browser, users, teams, teamMembers, activityLog,
                 started>>

\* await logActivity(INVITE_TEAM_MEMBER)
InviteLog(r) ==
  /\ req[r].pc = "it_log"
  /\ LET l == logActivity(req[r].jar, now, "INVITE_TEAM_MEMBER")
     IN /\ activityLog' = logged(activityLog, l)
        /\ req' = [req EXCEPT ![r] =
             IF l.kind = "throw" THEN Finish(@, "throw", l.val)
             ELSE Finish(@, "return", "Invitation sent successfully")]
  /\ UNCHANGED <<now, browser, users, teams, teamMembers, invitations,
                 started>>

\* ------------------------------------------------------- specifications
ClientSteps(clients) ==
  \/ \E c \in clients : Tamper(c)
  \/ \E c \in clients : Evict(c)
  \/ \E r \in Reqs : Respond(r)

Environment(clients) ==
  \/ Tick
  \/ ClientSteps(clients)

\* the server takes up a request, as long as one of slots is free
RequestsOn(slots, clients, ops, max) ==
  /\ started < max
  /\ \E r \in slots, c \in clients, op \in ops :
       \E input \in Inputs(op) : Start(r, c, op, input)

\* one request at a time
Requests(clients, ops, max) == RequestsOn({"r1"}, clients, ops, max)

\* one client calling the session functions
NextSession ==
  \/ Environment({"c1"})
  \/ Requests({"c1"}, SessionOps, MaxSessionRequests)
  \/ \E r \in Reqs : GetSession(r)
  \/ \E r \in Reqs : SetSession(r)
  \/ \E r \in Reqs : UpdateSession(r)

SpecSession == Init /\ [][NextSession]_vars

\* one client whose requests to setSession and updateSession overlap
NextRace ==
  \/ Pass
  \/ ClientSteps({"c1"})
  \/ RequestsOn(Reqs, {"c1"}, {"setSession", "updateSession"},
                MaxRaceRequests)
  \/ \E r \in Reqs : SetSession(r)
  \/ \E r \in Reqs : UpdateSession(r)

SpecRace == InitAccount /\ [][NextRace]_vars

\* clients calling the guarded actions; setSession gives a client a session
\* for any triple
GuardedNext(clients, max) ==
  \/ Environment(clients)
  \/ Requests(clients, GuardedOps \cup {"setSession"}, max)
  \/ \E r \in Reqs : SetSession(r)
  \/ \E r \in Reqs : WithAuthSession(r)
  \/ \E r \in Reqs : WithAuthFindUser(r)
  \/ \E r \in Reqs : WithAuthFindTeam(r)
  \/ \E r \in Reqs : WithAuthJoin(r)
  \/ \E r \in Reqs : WithUserSession(r)
  \/ \E r \in Reqs : WithUserFind(r)
  \/ \E r \in Reqs : DeleteAccountLog(r)
  \/ \E r \in Reqs : DeleteAccountUpdate(r)
  \/ \E r \in Reqs : ValidatedStart(r)
  \/ \E r \in Reqs : SignInFind(r)
  \/ \E r \in Reqs : SignInSession(r)

\* the steps of the server actions of app/(login)/actions.ts
AccountSteps(r) ==
  \/ ValidatedStart(r)
  \/ SignInFind(r)
  \/ SignInSession(r)
  \/ SignUpFind(r)
  \/ SignUpCreateUser(r)
  \/ SignUpFindInvitation(r)
  \/ SignUpAccept(r)
  \/ SignUpCreateTeam(r)
  \/ SignUpCreateMember(r)
  \/ SignUpLogs(r)
  \/ SignOut(r)
  \/ WithUserSession(r)
  \/ WithUserFind(r)
  \/ DeleteAccountLog(r)
  \/ DeleteAccountUpdate(r)
  \/ UpdatePasswordWrite(r)
  \/ UpdateAccountFind(r)
  \/ UpdateAccountWrite(r)
  \/ RemoveMemberDelete(r)
  \/ RemoveMemberLog(r)
  \/ InviteFindMember(r)
  \/ InviteFindInvitation(r)
  \/ InviteCreate(r)
  \/ InviteLog(r)

\* one client using the account actions; the clock is read in seconds
NextAccount ==
  \/ Pass
  \/ ClientSteps({"c1"})
  \/ Requests({"c1"}, AccountOps, MaxAccountRequests)
  \/ \E r \in Reqs : AccountSteps(r)

SpecAccount == InitAccount /\ [][NextAccount]_vars

\* one signed-in client whose inviteTeamMember requests overlap
NextInvites ==
  \/ Pass
  \/ ClientSteps({"c1"})
  \/ RequestsOn(Reqs, {"c1"}, {"inviteTeamMember"}, MaxInviteRequests)
  \/ \E r \in Reqs : ValidatedStart(r)
  \/ \E r \in Reqs : InviteFindMember(r)
  \/ \E r \in Reqs : InviteFindInvitation(r)
  \/ \E r \in Reqs : InviteCreate(r)
  \/ \E r \in Reqs : InviteLog(r)

SpecInvites == InitAccount /\ [][NextInvites]_vars

\* one client
Next == GuardedNext({"c1"}, MaxRequests)

Spec == Init /\ [][Next]_vars

\* the same account used from two clients
NextDevices == GuardedNext(Clients, MaxDeviceRequests)

SpecDevices == Init /\ [][NextDevices]_vars

\* ------------------------------------------------------------ properties
\* C1: getSession returns null for a token whose signature is corrupted and
\* never throws to its caller, whatever the cookie holds.
C1_GetSessionNeverThrows ==
  \A r \in Reqs :
    (req[r].op = "getSession" /\ req[r].pc = "respond") =>
      /\ req[r].outcome.kind = "return"
      /\ (req[r].jar # Null /\ req[r].jar.value.sig # "key")
           => req[r].outcome.val = "null"

\* C2: a correctly signed token whose exp claim has passed makes getSession
\* return null.
C2_ExpiredTokenIsAbsent ==
  [][\A r \in Reqs :
       (/\ GetSession(r)
        /\ req[r].jar # Null
        /\ req[r].jar.value.sig = "key"
        /\ req[r].jar.value.exp <= Epoch(now))
         => req'[r].outcome = [kind |-> "return", val |-> "null"]]_vars

\* C3: no guard hands a soft-deleted user to the wrapped handler.
C3_DeletedUserNeverAuthorized ==
  \A r \in Reqs :
    (req[r].op \in {"checkoutAction", "deleteAccount"} /\ req[r].invoked > 0)
      => req[r].args.user.deletedAt = Null

\* C4: right after setSession(userData), and until the token's exp, getSession
\* yields exactly userData plus expires = time of the call + 24h, whatever
\* the cookie was before.
C4_SetThenGet ==
  [][\A r \in Reqs :
       SetSession(r) =>
         \A t \in now .. MaxTime :
           Epoch(t) < Epoch(now) + OneDaySecs =>
             LET s == getSession(req'[r].jar, t)
             IN /\ s.kind = "value"
                /\ DOMAIN s.val = {"userId", "teamId", "userRole", "expires"}
                /\ s.val.userId = req[r].input.userId
                /\ s.val.teamId = req[r].input.teamId
                /\ s.val.userRole = req[r].input.userRole
                /\ ParseDate(s.val.expires) = now + OneDayMs]_vars

\* C4 witness: setSession has replaced the cookie of another user's session
C4_Witness ==
  \E r \in Reqs :
    /\ req[r].op = "setSession" /\ req[r].pc = "respond"
    /\ browser[req[r].client] # Null
    /\ browser[req[r].client].value.payload.userId # req[r].input.userId
    /\ browser[req[r].client].value.payload.userRole # req[r].input.userRole
    /\ req[r].jar.value.payload.userId = req[r].input.userId

\* C5: updateSession over an existing session keeps the expires of the
\* payload and of the cookie as they were (the value setSession fixed) and
\* takes userId, teamId and userRole from the call; the client's cookie keeps
\* its expires when the response arrives.
C5_UpdateKeepsExpires ==
  [][\A r \in Reqs :
       /\ (UpdateSession(r) /\ getSession(req[r].jar, now).kind = "value") =>
            /\ req'[r].jar.expires = req[r].jar.expires
            /\ req'[r].jar.value.payload.expires
                 = req[r].jar.value.payload.expires
            /\ req'[r].jar.expires
                 = ParseDate(req'[r].jar.value.payload.expires)
            /\ req'[r].jar.value.payload.userId = req[r].input.userId
            /\ req'[r].jar.value.payload.teamId = req[r].input.teamId
            /\ req'[r].jar.value.payload.userRole = req[r].input.userRole
       /\ (/\ Respond(r) /\ req[r].op = "updateSession"
           /\ req[r].session # Null /\ browser[req[r].client] # Null) =>
            /\ browser'[req[r].client].expires = browser[req[r].client].expires
            /\ browser'[req[r].client].value.payload.expires
                 = browser[req[r].client].value.payload.expires]_vars

\* C5 witness: updateSession, in a later second than the session was set,
\* has changed the role of an existing session
C5_Witness ==
  \E r \in Reqs :
    /\ req[r].op = "updateSession" /\ req[r].pc = "respond"
    /\ req[r].session # Null
    /\ req[r].input.userRole # req[r].session.userRole
    /\ req[r].jar.value.payload.userRole = req[r].input.userRole
    /\ req[r].jar.value.exp > Epoch(req[r].jar.expires)

\* C6: withAuth without a session cookie never invokes the handler and ends
\* in the redirect to /sign-in.
C6_NoCookieRedirects ==
  \A r \in Reqs :
    (req[r].op = "checkoutAction" /\ req[r].pc # "recv" /\ req[r].jar = Null)
      => /\ req[r].pc = "respond"
         /\ req[r].outcome = [kind |-> "redirect", val |-> "/sign-in"]
         /\ req[r].invoked = 0

\* C6 witness: withAuth has answered a request that carried no cookie
C6_Witness ==
  \E r \in Reqs :
    /\ req[r].op = "checkoutAction" /\ req[r].pc = "respond"
    /\ req[r].jar = Null
    /\ req[r].outcome.kind = "redirect"

\* C7: withAuth invokes the handler only with a user and a team; when one of
\* the two lookups found nothing it redirects to /sign-in.
C7_AllOrNothingJoin ==
  \A r \in Reqs :
    req[r].op = "checkoutAction" =>
      /\ req[r].invoked > 0 =>
           /\ req[r].args.user # Null /\ req[r].args.team # Null
           /\ req[r].args.user # Pending /\ req[r].args.team # Pending
      /\ (/\ req[r].pc = "respond" /\ req[r].session # Null
          /\ (req[r].user = Null \/ req[r].team = Null)) =>
           /\ req[r].outcome = [kind |-> "redirect", val |-> "/sign-in"]
           /\ req[r].invoked = 0

\* C7 witness: the user was found, the team was not, withAuth has redirected
C7_Witness ==
  \E r \in Reqs :
    /\ req[r].op = "checkoutAction" /\ req[r].pc = "respond"
    /\ req[r].user \notin {Null, Pending}
    /\ req[r].team = Null
    /\ req[r].outcome.kind = "redirect"

\* C8: withAuth ends in the redirect to /sign-in or in the handler for every
\* cookie (absent, tampered, expired, valid); it never fails with an error.
C8_WithAuthNeverThrows ==
  \A r \in Reqs :
    (req[r].op = "checkoutAction" /\ req[r].pc = "respond") =>
      \/ req[r].outcome = [kind |-> "redirect", val |-> "/sign-in"]
      \/ req[r].outcome.kind = "return" /\ req[r].invoked = 1

\* C9: validatedActionWithUser throws "User is not authenticated" without a
\* session and "User not found" without a user row, whatever the input; with
\* a user and invalid input it returns {error}; the handler runs once, only
\* after session, user and schema succeeded, and receives that user.
C9_WithUserOrder ==
  \A r \in Reqs :
    req[r].op = "deleteAccount" =>
      LET result == safeParse(req[r].op, req[r].input)
      IN /\ (req[r].pc # "recv" /\ req[r].jar = Null /\ ~req[r].dirty) =>
              /\ req[r].pc = "respond"
              /\ req[r].outcome
                   = [kind |-> "throw", val |-> "User is not authenticated"]
              /\ req[r].invoked = 0
         /\ (/\ req[r].pc = "respond" /\ req[r].session # Null
             /\ req[r].session.userId \notin DOMAIN users) =>
              /\ req[r].outcome = [kind |-> "throw", val |-> "User not found"]
              /\ req[r].invoked = 0
         /\ (/\ req[r].pc = "respond" /\ req[r].session # Null
             /\ req[r].session.userId \in DOMAIN users
             /\ ~result.success) =>
              /\ req[r].outcome
                   = [kind |-> "error", val |-> Head(result.errors)]
              /\ req[r].invoked = 0
         /\ req[r].invoked > 0 =>
              /\ req[r].invoked = 1
              /\ req[r].session # Null
              /\ result.success
              /\ req[r].args.data = req[r].input
              /\ req[r].args.user = req[r].user
              /\ req[r].args.user.id = req[r].session.userId

\* C9 witness: the session's user has no row and the input is invalid; the
\* guard has thrown
C9_Witness ==
  \E r \in Reqs :
    /\ req[r].op = "deleteAccount" /\ req[r].pc = "respond"
    /\ req[r].session # Null
    /\ req[r].session.userId \notin DOMAIN users
    /\ ~safeParse(req[r].op, req[r].input).success
    /\ req[r].outcome.kind = "throw"

\* C10: validatedAction returns {error: first schema error} for an input the
\* schema rejects, without the handler and without throwing; it invokes the
\* handler once, with the parsed data, for an input the schema accepts.
C10_ValidateOnly ==
  \A r \in Reqs :
    (req[r].op = "signIn" /\ req[r].pc # "recv") =>
      LET issues == schemaIssues(req[r].op, req[r].input)
      IN IF issues # <<>>
           THEN /\ req[r].pc = "respond"
                /\ req[r].outcome = [kind |-> "error", val |-> Head(issues)]
                /\ req[r].invoked = 0
           ELSE /\ req[r].invoked = 1
                /\ req[r].args.data = req[r].input

\* C10 witness: an input with two schema errors has been answered with the
\* first one
C10_Witness ==
  \E r \in Reqs :
    /\ req[r].op = "signIn" /\ req[r].pc = "respond"
    /\ Len(schemaIssues(req[r].op, req[r].input)) > 1
    /\ req[r].outcome.kind = "error"
    /\ req[r].invoked = 0

\* C12: a successful signIn appends exactly one EMAIL_SIGN_IN row, for the
\* user and the team that signed in, whatever cookie the client held.
C12_SignInLogged ==
  [][\A r \in Reqs :
       (SignInSession(r) /\ req'[r].outcome.kind \in {"redirect", "return"})
         => activityLog' =
              Append(activityLog,
                     [teamId |-> teamsOf(req[r].user.id)[1].teamId,
                      userId |-> req[r].user.id,
                      action |-> "EMAIL_SIGN_IN"])]_vars

\* C15: signIn with the email of an account and a wrong password returns the
\* "Invalid email or password" error; no step of the request changes the
\* cookie or the activity log.
C15_WrongPasswordNoEffect ==
  [][\A r \in Reqs :
       LET wrong ==
             /\ req[r].op = "signIn"
             /\ \E id \in DOMAIN users :
                  /\ users[id].email = <<req[r].input.email, 0>>
                  /\ users[id].deletedAt = Null
                  /\ users[id].passwordHash
                       # hashPassword(req[r].input.password)
       IN /\ (wrong /\ ValidatedStart(r)) =>
               /\ req'[r].jar = req[r].jar /\ ~req'[r].dirty
               /\ activityLog' = activityLog
          /\ (wrong /\ SignInFind(r)) =>
               /\ req'[r].pc = "respond"
               /\ req'[r].outcome =
                    [kind |-> "error",
                     val |-> "Invalid email or password. Please try again."]
               /\ req'[r].jar = req[r].jar /\ ~req'[r].dirty
               /\ activityLog' = activityLog
          /\ (wrong /\ Respond(r)) =>
               /\ browser' = browser
               /\ activityLog' = activityLog]_vars

\* C15 witness: a client holding a session has been refused with a wrong
\* password
C15_Witness ==
  \E r \in Reqs :
    /\ req[r].op = "signIn" /\ req[r].pc = "respond"
    /\ req[r].input = [email |-> "a@x.io", password |-> "wrongpass"]
    /\ req[r].outcome.kind = "error"
    /\ req[r].jar # Null
    /\ browser[req[r].client] = req[r].jar

\* C16: wherever a session cookie exists, its expires attribute is the
\* expires of the payload signed inside it.
C16_CookieExpiresIsPayloadExpires ==
  /\ \A c \in Clients :
       browser[c] # Null =>
         browser[c].expires = ParseDate(browser[c].value.payload.expires)
  /\ \A r \in Reqs :
       req[r].jar # Null =>
         req[r].jar.expires = ParseDate(req[r].jar.value.payload.expires)

\* C16 witness: the client holds a cookie written by updateSession in a later
\* second, with an expires that is not a whole second
C16_Witness ==
  \E c \in Clients :
    /\ browser[c] # Null
    /\ browser[c].value.exp > Epoch(browser[c].expires)
    /\ browser[c].value.payload.expires.frac # 0

\* C18: every token setSession or updateSession signs has exp = issuance +
\* 1 day, whatever the payload's expires; getSession accepts it until then,
\* also after the payload's expires.
C18_EnvelopeExpiry ==
  [][\A r \in Reqs :
       ((SetSession(r) \/ UpdateSession(r)) /\ req'[r].dirty) =>
         /\ req'[r].jar.value.iat = Epoch(now)
         /\ req'[r].jar.value.exp = Epoch(now) + OneDaySecs
         /\ \A t \in now .. MaxTime :
              getSession(req'[r].jar, t).kind
                = IF Epoch(t) < Epoch(now) + OneDaySecs THEN "value"
                  ELSE "throw"]_vars

\* C18 witness: getSession has accepted a token that is still valid although
\* the expires of its payload has passed
C18_Witness ==
  \E r \in Reqs :
    /\ req[r].op = "getSession" /\ req[r].pc = "respond"
    /\ req[r].outcome = [kind |-> "return", val |-> "value"]
    /\ ParseDate(req[r].session.expires) <= now
    /\ getSession(req[r].jar, now).kind = "value"

\* the rows of the log whose action is type
rowsOf(log, type) == {i \in 1..Len(log) : log[i].action = type}

\* C11: a successful signUp without inviteId from a client with no session
\* cookie has created one User, one Team and one ADMIN TeamMember, has set a
\* session for them, and appends exactly one CREATE_TEAM row and exactly one
\* EMAIL_SIGN_UP row.
C11_SignUpCreatesAndLogs ==
  [][\A r \in Reqs :
       (/\ SignUpLogs(r)
        /\ "inviteId" \notin DOMAIN req[r].args.data
        /\ req[r].sent = Null
        /\ req'[r].outcome.kind \in {"redirect", "return"})
         => LET id == req[r].user.id
                team == req[r].team.id
            IN /\ id \in DOMAIN users /\ team \in teams
               /\ teamsOf(id) = <<[userId |-> id, teamId |-> team,
                                   role |-> "ADMIN"]>>
               /\ req'[r].jar # Null
               /\ req'[r].jar.value.payload.userId = id
               /\ req'[r].jar.value.payload.teamId = team
               /\ Len(activityLog') = Len(activityLog) + 2
               /\ Cardinality(rowsOf(activityLog', "CREATE_TEAM"))
                    = Cardinality(rowsOf(activityLog, "CREATE_TEAM")) + 1
               /\ Cardinality(rowsOf(activityLog', "EMAIL_SIGN_UP"))
                    = Cardinality(rowsOf(activityLog, "EMAIL_SIGN_UP")) + 1]_vars

\* C13 as stated: signOut clears the session cookie and appends exactly one
\* SIGN_OUT row, also when the request came without a session.
C13_SignOutAlwaysLogs ==
  [][\A r \in Reqs :
       (SignOut(r) /\ getSession(req[r].jar, now).kind # "throw")
         => /\ req'[r].jar = Null /\ req'[r].dirty
            /\ Len(activityLog') = Len(activityLog) + 1
            /\ activityLog'[Len(activityLog')].action = "SIGN_OUT"]_vars

\* C13 amended: signOut clears the session cookie; it appends exactly one
\* SIGN_OUT row, for the session's user and team, when the request came with
\* a valid session, and no row when the request came without a cookie.
C13_SignOutLogsSession ==
  [][\A r \in Reqs :
       LET s == getSession(req[r].jar, now)
       IN /\ (SignOut(r) /\ s.kind = "value")
               => /\ req'[r].jar = Null /\ req'[r].dirty
                  /\ req'[r].outcome.kind = "return"
                  /\ activityLog' = Append(activityLog,
                       [teamId |-> s.val.teamId, userId |-> s.val.userId,
                        action |-> "SIGN_OUT"])
          /\ (SignOut(r) /\ s.kind = "null")
               => /\ req'[r].jar = Null /\ req'[r].dirty
                  /\ req'[r].outcome.kind = "return"
                  /\ activityLog' = activityLog
          /\ (Respond(r) /\ req[r].op = "signOut"
                /\ req[r].outcome.kind = "return")
               => browser'[req[r].client] = Null]_vars

\* a signOut that came without a cookie has answered, after an earlier
\* signOut with a session had logged its row
C13_Witness ==
  \E r \in Reqs :
    /\ req[r].op = "signOut" /\ req[r].pc = "respond"
    /\ req[r].sent = Null /\ req[r].outcome.kind = "return"
    /\ Cardinality(rowsOf(activityLog, "SIGN_OUT")) = 1

\* C14: after a signOut from any cookie state (absent, valid, tampered or
\* expired token) the session cookie is absent.
C14_SignOutTotal ==
  [][\A r \in Reqs :
       (Respond(r) /\ req[r].op = "signOut")
         => browser'[req[r].client] = Null]_vars

\* C17: signIn, signUp, updatePassword, deleteAccount, updateAccount,
\* removeTeamMember and inviteTeamMember append no activity log row when they
\* return an {error} result: the log is as it was when the request came.
C17_ErrorsLogNothing ==
  \A r \in Reqs :
    (/\ req[r].pc = "respond"
     /\ req[r].op \in AccountOps \ {"signOut"}
     /\ req[r].outcome.kind = "error")
      => activityLog = req[r].logBefore

\* inviteTeamMember has returned its "already sent" error; the log holds the
\* row of the earlier invitation and no more
C17_Witness ==
  \E r \in Reqs :
    /\ req[r].pc = "respond" /\ req[r].op = "inviteTeamMember"
    /\ req[r].outcome
         = [kind |-> "error",
            val |-> "An invitation has already been sent to this email"]
    /\ Len(activityLog) = 1
    /\ activityLog[1].action = "INVITE_TEAM_MEMBER"

\* C20: a guarded request gets exactly one terminal outcome (redirect, throw,
\* {error} or the handler's return) and nothing but the response follows it;
\* the handler is invoked at most once, with a session and its user where the
\* guard authenticates and with a form the schema accepts where one is
\* declared; withAuth hands over the user and the team of the session's ids
\* and the session's role.
C20_OneOutcomeOneInvocation ==
  [][\A r \in Reqs :
       req'[r] # req[r] =>
         /\ req[r].pc = "respond" => req'[r] = Idle
         /\ (req'[r].pc = "respond")
              = (req'[r].outcome.kind
                   \in {"redirect", "throw", "error", "return"})
         /\ req'[r].pc # "respond" => req'[r].outcome.kind = "none"
         /\ req'[r].invoked \in {0, 1}
         /\ req[r].pc \notin {"idle", "respond"}
              => req'[r].invoked >= req[r].invoked
         /\ (req[r].invoked = 0 /\ req'[r].invoked = 1) =>
              LET q == req'[r]
              IN /\ q.op \in WithUserOps \cup {"checkoutAction"}
                      => /\ q.session # Null
                         /\ q.args.user # Null
                         /\ q.args.user.id = q.session.userId
                 /\ q.op \in WithUserOps \cup ValidatedOps
                      => /\ safeParse(q.op, q.input).success
                         /\ q.args.data = q.input
                 /\ q.op = "checkoutAction"
                      => /\ q.args.team # Null
                         /\ q.args.team.id = q.session.teamId
                         /\ q.args.userRole = q.session.userRole]_vars

\* withAuth has invoked its handler for a session with the role MEMBER
C20_Witness ==
  \E r \in Reqs :
    /\ req[r].pc = "respond" /\ req[r].op = "checkoutAction"
    /\ req[r].invoked = 1 /\ req[r].outcome.kind = "return"
    /\ req[r].session.userRole = "MEMBER"
    /\ req[r].args.userRole = "MEMBER"

\* C19: when setSession/updateSession requests of one client overlap, each
\* response leaves the client with the complete cookie of that one request:
\* userId, teamId and userRole are that request's, the expires attribute
\* belongs to its payload, and an updateSession over an existing session
\* keeps the expires of the session it came with, so two of them over the
\* same session both keep the original expires.
C19_LastWriterWins ==
  [][\A r \in Reqs :
       (Respond(r) /\ req[r].op \in {"setSession", "updateSession"}
          /\ req[r].dirty)
         => LET cookie == browser'[req[r].client]
                payload == cookie.value.payload
            IN /\ cookie = req[r].jar
               /\ payload.userId = req[r].input.userId
               /\ payload.teamId = req[r].input.teamId
               /\ payload.userRole = req[r].input.userRole
               /\ cookie.expires = ParseDate(payload.expires)
               /\ (req[r].op = "updateSession" /\ req[r].session # Null)
                    => payload.expires = req[r].sent.value.payload.expires
               /\ \A o \in Reqs \ {r} :
                    (/\ req[r].op = "updateSession" /\ req[r].session # Null
                     /\ req[o].op = "updateSession" /\ req[o].pc = "respond"
                     /\ req[o].sent = req[r].sent)
                      => req[o].jar.value.payload.expires = payload.expires]_vars

\* two updateSession requests that came with the same session have both
\* written their cookie, with different user data, and neither has answered
C19_Witness ==
  /\ \A r \in Reqs :
       /\ req[r].pc = "respond" /\ req[r].op = "updateSession"
       /\ req[r].session # Null /\ req[r].dirty
  /\ req["r1"].sent = req["r2"].sent
  /\ req["r1"].input # req["r2"].input

\* C21: the userRole that signIn or signUp puts into the session is the role
\* of the TeamMember row that links the session's userId to its teamId; after
\* a signUp through an invitation with role MEMBER it is MEMBER.
C21_RoleAtIssuance ==
  [][\A r \in Reqs :
       (/\ req[r].op \in {"signIn", "signUp"}
        /\ req'[r].op = req[r].op
        /\ req'[r].jar # req[r].jar /\ req'[r].jar # Null)
         => LET payload == req'[r].jar.value.payload
                links == {i \in 1..Len(teamMembers') :
                            /\ teamMembers'[i].userId = payload.userId
                            /\ teamMembers'[i].teamId = payload.teamId}
            IN /\ links # {}
               /\ \A i \in links :
                    teamMembers'[i].role = payload.userRole]_vars

\* C22: a signUp that returns an {error} result leaves the store and the
\* cookie as they were when the request came; with an inviteId that matches
\* no pending invitation for the email no User row is created, so no live
\* account holds the email afterwards.
C22_FailedSignUpNoEffect ==
  \A r \in Reqs :
    (/\ req[r].pc = "respond" /\ req[r].op = "signUp"
     /\ req[r].outcome.kind = "error")
      => /\ users = req[r].storeBefore.users
         /\ teams = req[r].storeBefore.teams
         /\ teamMembers = req[r].storeBefore.teamMembers
         /\ invitations = req[r].storeBefore.invitations
         /\ req[r].jar = req[r].sent /\ ~req[r].dirty
         /\ req[r].outcome.val = "Invalid or expired invitation."
              => findUserByEmail(req[r].input.email) = Null

\* C23: after any inviteTeamMember calls, overlapping ones included, a team
\* has at most one PENDING invitation per email, and none for the email of
\* one of its members.
C23_OnePendingInvitation ==
  /\ \A i, j \in 1..Len(invitations) :
       (/\ invitations[i].teamId = invitations[j].teamId
        /\ invitations[i].email = invitations[j].email
        /\ invitations[i].status = "PENDING"
        /\ invitations[j].status = "PENDING")
         => i = j
  /\ \A i \in 1..Len(invitations), m \in 1..Len(teamMembers) :
       (/\ invitations[i].status = "PENDING"
        /\ teamMembers[m].teamId = invitations[i].teamId)
         => users[teamMembers[m].userId].email # <<invitations[i].email, 0>>

\* C24: when deleteAccount succeeds the user row is soft-deleted (deletedAt
\* set, the email suffixed), the DELETE_ACCOUNT row of this request is in the
\* log before the row is updated, and the response removes the session
\* cookie; a later signIn with the email of a deleted account that no live
\* account holds returns the "Invalid email or password" error and sets no
\* session.
C24_DeleteThenSignInFails ==
  [][\A r \in Reqs :
       /\ (DeleteAccountUpdate(r) /\ req'[r].outcome.kind = "redirect")
            => LET id == req[r].user.id
               IN /\ users'[id].deletedAt # Null
                  /\ users'[id].email
                       = <<users[id].email[1], users[id].email[2] + 1>>
                  /\ req'[r].jar = Null /\ req'[r].dirty
                  /\ activityLog = Append(req[r].logBefore,
                       [teamId |-> req[r].session.teamId, userId |-> id,
                        action |-> "DELETE_ACCOUNT"])
                  /\ activityLog' = activityLog
       /\ (Respond(r) /\ req[r].op = "deleteAccount"
             /\ req[r].outcome.kind = "redirect")
            => browser'[req[r].client] = Null
       /\ (/\ SignInFind(r)
           /\ \E id \in DOMAIN users :
                /\ users[id].deletedAt # Null
                /\ users[id].email[1] = req[r].args.data.email
           /\ ~ \E id \in DOMAIN users :
                  /\ users[id].deletedAt = Null
                  /\ users[id].email = <<req[r].args.data.email, 0>>)
            => /\ req'[r].outcome
                    = [kind |-> "error",
                       val |-> "Invalid email or password. Please try again."]
               /\ req'[r].jar = req[r].jar /\ ~req'[r].dirty
               /\ activityLog' = activityLog]_vars

\* after the account was deleted and its cookie removed, a signIn with the
\* account's email and password has been answered with the error
C24_Witness ==
  \E r \in Reqs :
    /\ req[r].pc = "respond" /\ req[r].op = "signIn"
    /\ req[r].input = [email |-> "a@x.io", password |-> "password1"]
    /\ req[r].outcome.kind = "error"
    /\ users["u1"].deletedAt # Null
    /\ req[r].sent = Null /\ req[r].jar = Null
    /\ rowsOf(activityLog, "DELETE_ACCOUNT") # {}

====
